---- MODULE Spec2Model ----
(***************************************************************************)
(* The library cache of plugin.video.nas: StremioAPI.data_store, the local *)
(* file datastore.json and the remote Stremio datastore, with the          *)
(* operations that load, refresh, sync and push library entries, and the   *)
(* worker threads that get_notifications spawns.                           *)
(*                                                                         *)
(* A remote call either answers or fails (network error, error status,     *)
(* malformed body); a file write either completes or raises while          *)
(* serializing, after open() truncated the file.  An entry is reduced to   *)
(* its id and _mtime: every mutation of an entry stamps a new _mtime, so    *)
(* two states of an entry differ in it.                                     *)
(***************************************************************************)
EXTENDS Integers, Sequences, FiniteSets, TLC

\* ---------------------------------------------------------------- bounds
\* Number of instants at which an entry is modified, locally or remotely.
MaxTick == 4
\* Number of notification catalogs, one worker thread each.
MaxCatalogs == 2
\* Number of videos of an item: with 9 the flags need a second byte.
MaxVideos == 9
\* Number of library items whose metadata is looked up at once.
MaxItems == 3
\* Number of calls made on a library entry.
MaxCalls == 3
\* Number of video ids put in front of a list, taken from its front, or
\* added at its end, between two serializations.
MaxShift == 2

Ids == {"a", "b", "c"}
\* Thread 0 is the initiating (main) thread; 1..MaxCatalogs are the workers.
Main == 0
Workers == 1..MaxCatalogs
Threads == {Main} \cup Workers

VARIABLES
    data_store,    \* StremioAPI.data_store: id -> entry
    file,          \* datastore.json
    remote,        \* the remote collection "libraryItem": id -> entry
    clock,         \* number of modification instants so far
    pc,            \* position of every thread
    meta,          \* update_data_store's local `meta`, per thread
    outdated_ids,  \* update_data_store's local `outdated_ids`, per thread
    op,            \* the operation the main thread runs or ran last
    refresh,       \* get_data_store's argument
    cached_store,  \* get_data_store's local `cached_store`
    response,      \* get_data_store's local `response`
    pushed,        \* id of the entry handed to set_data
    err,           \* the exception the main thread's operation raised
    trace,         \* effects of the main thread's operation, in order
    requested,     \* ids the operation asked full records for
    before,        \* data_store when the operation began
    file_before,   \* file when the operation began
    \* ---- the watched-bitfield codec (StremioLibrary.py, lines 26-153)
    arr,           \* construct_from_array's argument: a list of booleans
    video_ids,     \* the video ids the bitfield is built against
    bitfield,      \* the BitField8 built from them
    serialized,    \* what WatchedBitfield.serialize returned
    call,          \* the codec call made last, with its arguments
    returned,      \* what that call returned or raised
    \* ---- a library entry (StremioLibrary.py, lines 156-307)
    entry,         \* the StremioLibrary object with its WatchState
    calls,         \* the calls made on it, each with the entry before it
    failure,       \* the exception the last of them raised
    \* ---- get_metadata_by_libraries (StremioAPI.py, lines 257-296)
    libraries,     \* its argument, reduced to the ids of the items
    metadata,      \* StremioAPI.metadata: the ids whose StremioMeta is cached
    responses,     \* its local list `responses`
    tpc,           \* position of each of its threads
    finished,      \* the threads that have ended, in the order they ended
    listed,        \* what it returned
    gpc            \* its own position

\* The variables of the codec; the cache operations leave them alone.
codec == <<arr, video_ids, bitfield, serialized, call, returned>>
\* The variables of the library entry.
watch == <<entry, calls, failure>>
\* The variables of get_metadata_by_libraries.
gather == <<libraries, metadata, responses, tpc, finished, listed, gpc>>
aside == <<codec, watch, gather>>

vars == <<data_store, file, remote, clock, pc, meta, outdated_ids, op, refresh,
          cached_store, response, pushed, err, trace, requested, before,
          file_before, aside>>

shared == <<data_store, file, remote, clock>>
locals == <<op, refresh, cached_store, response, pushed, requested, before,
            file_before>>

\* ------------------------------------------------------------ data model
\* An entry is a StremioLibrary record; only _mtime (in ms) is kept.
Entry(t) == [mtime |-> t]

\* datetime.now() at the k-th instant, in ms: 50, 100, 200, 300, 400, ...
Now(k) == IF k = 1 THEN 50 ELSE 100 * (k - 1)

EmptyStore == [i \in {} |-> Entry(0)]

\* A merge in which the record already held wins.
MergeKeepLocal(store, records) ==
    [i \in (DOMAIN store) \cup (DOMAIN records) |->
        IF i \in DOMAIN store THEN store[i] ELSE records[i]]

\* {i.id: i for i in ...}: later records of the same id overwrite.
Merge(store, records) ==
    [i \in (DOMAIN store) \cup (DOMAIN records) |->
        IF i \in DOMAIN records THEN records[i] ELSE store[i]]

Restrict(store, ids) == [i \in (DOMAIN store) \cap ids |-> store[i]]

Put(store, i, e) == [j \in (DOMAIN store) \cup {i} |-> IF j = i THEN e ELSE store[j]]

AbsentFile == [kind |-> "absent", store |-> EmptyStore]
PartialFile == [kind |-> "partial", store |-> EmptyStore]
SavedFile(store) == [kind |-> "ok", store |-> store]

NoCache == [found |-> FALSE, store |-> EmptyStore]

\* ------------------------------------------------------------- _post
\* StremioAPI._post: every exception of the request is caught and the
\* default_return ({}) is handed back; nothing is raised to the caller.
\* A _post that lets the request's exception through.
_post_raising(ok, result) ==
    [value |-> IF ok THEN result ELSE EmptyStore,
     raised |-> IF ok THEN "none" ELSE "TransportError"]

_post(ok, result) ==
    [value |-> IF ok THEN result ELSE EmptyStore, raised |-> "none"]

\* What the remote answers to datastoreMeta: (id, mtime in ms) pairs.
Listing(store) == [i \in DOMAIN store |-> store[i].mtime]

\* ------------------------------------------------------------- helpers
Goto(t, l) == pc' = [pc EXCEPT ![t] = l]

Log(t, e) == trace' = IF t = Main THEN Append(trace, e) ELSE trace

\* An exception ends the main thread's operation, or a worker thread.
Throw(t, e) ==
    /\ pc' = [pc EXCEPT ![t] = "done"]
    /\ err' = IF t = Main THEN e ELSE err

Idle == \A t \in Threads : pc[t] = "idle"

Begin(name, r, id) ==
    /\ op' = name
    /\ refresh' = r
    /\ pushed' = id
    /\ err' = "none"
    /\ before' = data_store
    /\ file_before' = file
    /\ requested' = {}
    /\ cached_store' = NoCache
    /\ response' = EmptyStore
    /\ meta' = [t \in Threads |-> EmptyStore]
    /\ outdated_ids' = [t \in Threads |-> {}]

\* Python truthiness of a loaded list: None and [] are false.
Truthy(c) == c.found /\ DOMAIN c.store # {}

\* ------------------------------------------------- write / load the file
\* open(DATASTORE_FILE, "w") truncates the file; json.dump then writes it.
\* "write_dump_fail": serialization raises after the file was truncated, and
\* what it wrote so far (possibly nothing) is what the file holds.
WriteOutcomes == {"write_ok", "write_dump_fail"}

FileAfterWrite(o) ==
    IF o = "write_ok" THEN SavedFile(data_store) ELSE PartialFile

write_data_store(t, next) ==
    \E o \in WriteOutcomes :
        /\ file' = FileAfterWrite(o)
        /\ Log(t, o)
        /\ IF o = "write_ok"
           THEN Goto(t, next) /\ err' = err
           ELSE Throw(t, "PersistenceError")

\* json.load of an absent or partial file raises; None is returned.
load_data_store ==
    IF file.kind = "ok" THEN [found |-> TRUE, store |-> file.store] ELSE NoCache

\* ------------------------------------------------------- get_data_store
GDS_Begin(r) ==
    /\ Idle
    /\ Begin(IF r THEN "refresh" ELSE "load", r, "none")
    /\ trace' = <<>>
    /\ IF DOMAIN data_store # {} /\ ~r
       THEN Goto(Main, "done")
       ELSE Goto(Main, "gds_load")
    /\ UNCHANGED shared
    /\ UNCHANGED aside

GDS_Load ==
    /\ pc[Main] = "gds_load"
    /\ LET c == load_data_store IN
        /\ cached_store' = c
        /\ response' = c.store
        /\ Goto(Main, IF ~Truthy(c) \/ refresh THEN "gds_post" ELSE "gds_assign")
    /\ Log(Main, "load")
    /\ UNCHANGED <<shared, meta, outdated_ids, op, refresh, pushed, err,
                   requested, before, file_before>>
    /\ UNCHANGED aside

GDS_Post ==
    /\ pc[Main] = "gds_post"
    /\ \E ok \in BOOLEAN :
        LET r == _post(ok, remote) IN
        /\ response' = r.value
        /\ Log(Main, IF ok THEN "snapshot_ok" ELSE "snapshot_fail")
        /\ IF r.raised = "none"
           THEN Goto(Main, "gds_assign") /\ err' = err
           ELSE Throw(Main, r.raised)
    /\ UNCHANGED <<shared, meta, outdated_ids, op, refresh, pushed,
                   cached_store, requested, before, file_before>>
    /\ UNCHANGED aside

GDS_Assign ==
    /\ pc[Main] = "gds_assign"
    /\ data_store' = Merge(EmptyStore, response)
    /\ Goto(Main, IF Truthy(cached_store) /\ ~refresh THEN "uds_meta" ELSE "gds_write")
    /\ UNCHANGED <<file, remote, clock, meta, outdated_ids, locals, err, trace>>
    /\ UNCHANGED aside

GDS_Write ==
    /\ pc[Main] = "gds_write"
    /\ write_data_store(Main, "done")
    /\ UNCHANGED <<data_store, remote, clock, meta, outdated_ids, locals>>
    /\ UNCHANGED aside

\* ----------------------------------------------------- update_data_store
\* Where update_data_store returns to: get_catalog in a worker, the caller of
\* a plain sync, or line 192 of get_data_store.
UdsReturn(t) ==
    IF t # Main THEN "cat_get" ELSE IF op = "sync" THEN "done" ELSE "gds_write"

\* A comparison that also takes an entry as old as the remote one for stale.
StaleIdsNotNewer(store, listing) ==
    {i \in DOMAIN listing : i \notin DOMAIN store \/ store[i].mtime <= listing[i]}

\* The ids of the listing that are missing locally or older than the remote.
\* Both times are in ms: the listing's i[1], and the entry's modified_time,
\* read as the _mtime that _set_time stamps.
StaleIds(store, listing) ==
    {i \in DOMAIN listing : i \notin DOMAIN store \/ store[i].mtime < listing[i]}

Sync_Begin ==
    /\ Idle
    /\ Begin("sync", FALSE, "none")
    /\ trace' = <<>>
    /\ Goto(Main, "uds_meta")
    /\ UNCHANGED shared
    /\ UNCHANGED aside

UDS_Meta(t) ==
    /\ pc[t] = "uds_meta"
    /\ \E ok \in BOOLEAN :
        LET r == _post(ok, Listing(remote)) IN
        /\ meta' = [meta EXCEPT ![t] = r.value]
        /\ Log(t, IF ok THEN "meta_ok" ELSE "meta_fail")
        /\ IF r.raised = "none"
           THEN Goto(t, "uds_check") /\ err' = err
           ELSE Throw(t, r.raised)
    /\ UNCHANGED <<shared, outdated_ids, locals>>
    /\ UNCHANGED aside

\* update_data_store without its early return.
UDS_CheckNoReturn(t) ==
    /\ pc[t] = "uds_check"
    /\ outdated_ids' = [outdated_ids EXCEPT ![t] = StaleIds(data_store, meta[t])]
    /\ Goto(t, "uds_fetch")
    /\ UNCHANGED <<shared, meta, locals, err, trace>>
    /\ UNCHANGED aside

UDS_Check(t) ==
    /\ pc[t] = "uds_check"
    /\ LET ids == StaleIds(data_store, meta[t]) IN
        /\ outdated_ids' = [outdated_ids EXCEPT ![t] = ids]
        /\ Goto(t, IF ids = {} THEN UdsReturn(t) ELSE "uds_fetch")
    /\ UNCHANGED <<shared, meta, locals, err, trace>>
    /\ UNCHANGED aside

\* get_data_by_ids: one datastoreGet for the outdated ids, merged by id.
get_data_by_ids(t) ==
    /\ pc[t] = "uds_fetch"
    /\ \E ok \in BOOLEAN :
        LET r == _post(ok, Restrict(remote, outdated_ids[t])) IN
        /\ data_store' = Merge(data_store, r.value)
        /\ Log(t, IF ok THEN "fetch_ok" ELSE "fetch_fail")
        /\ IF r.raised = "none"
           THEN Goto(t, "uds_write") /\ err' = err
           ELSE Throw(t, r.raised)
    /\ requested' = IF t = Main THEN outdated_ids[t] ELSE requested
    /\ UNCHANGED <<file, remote, clock, meta, outdated_ids, op, refresh,
                   cached_store, response, pushed, before, file_before>>
    /\ UNCHANGED aside

UDS_Write(t) ==
    /\ pc[t] = "uds_write"
    /\ write_data_store(t, UdsReturn(t))
    /\ UNCHANGED <<data_store, remote, clock, meta, outdated_ids, locals>>
    /\ UNCHANGED aside

\* ------------------------------------------------- push / set_data
\* StremioLibrary.push: _set_time stamps the entry, set_data stores it.
Push_Begin(id) ==
    /\ Idle
    /\ clock < MaxTick
    /\ clock' = clock + 1
    /\ Begin("push", FALSE, id)
    /\ data_store' = Put(data_store, id, Entry(Now(clock')))
    /\ trace' = <<"store">>
    /\ Goto(Main, "sd_write")
    /\ UNCHANGED <<file, remote>>
    /\ UNCHANGED aside

\* set_data that uploads without writing the file first.
SD_WriteSkipped ==
    /\ pc[Main] = "sd_write"
    /\ Goto(Main, "sd_post")
    /\ UNCHANGED <<shared, meta, outdated_ids, locals, err, trace>>
    /\ UNCHANGED aside

SD_Write ==
    /\ pc[Main] = "sd_write"
    /\ write_data_store(Main, "sd_post")
    /\ UNCHANGED <<data_store, remote, clock, meta, outdated_ids, locals>>
    /\ UNCHANGED aside

SD_Post ==
    /\ pc[Main] = "sd_post"
    /\ \E ok \in BOOLEAN :
        LET r == _post(ok, EmptyStore) IN
        /\ remote' = IF ok THEN Put(remote, pushed, data_store[pushed]) ELSE remote
        /\ Log(Main, IF ok THEN "put_ok" ELSE "put_fail")
        /\ IF r.raised = "none"
           THEN Goto(Main, "done") /\ err' = err
           ELSE Throw(Main, r.raised)
    /\ UNCHANGED <<data_store, file, clock, meta, outdated_ids, locals>>
    /\ UNCHANGED aside

\* ------------------------------------------------- get_notifications
\* One thread per notification catalog; each runs get_catalog, which begins
\* with update_data_store and then fetches the catalog.
GN_Begin ==
    /\ Idle
    /\ Begin("notify", FALSE, "none")
    /\ trace' = <<>>
    /\ pc' = [t \in Threads |-> IF t = Main THEN "gn_join" ELSE "uds_meta"]
    /\ UNCHANGED shared
    /\ UNCHANGED aside

\* The catalog request of get_catalog; the thread ends and its locals go.
Cat_Get(w) ==
    /\ pc[w] = "cat_get"
    /\ Goto(w, "done")
    /\ meta' = [meta EXCEPT ![w] = EmptyStore]
    /\ outdated_ids' = [outdated_ids EXCEPT ![w] = {}]
    /\ UNCHANGED <<shared, locals, err, trace>>
    /\ UNCHANGED aside

GN_Join ==
    /\ pc[Main] = "gn_join"
    /\ \A w \in Workers : pc[w] = "done"
    /\ pc' = [t \in Threads |-> IF t = Main THEN "done" ELSE "idle"]
    /\ UNCHANGED <<shared, meta, outdated_ids, locals, err, trace>>
    /\ UNCHANGED aside

\* The operation returns to its caller; its locals are gone.
Return ==
    /\ pc[Main] = "done"
    /\ Goto(Main, "idle")
    /\ Begin("none", FALSE, "none")
    /\ trace' = <<>>
    /\ UNCHANGED shared
    /\ UNCHANGED aside

\* ------------------------------------------------- the remote store
\* Another device changes an entry of the remote collection.
RemoteEdit(id) ==
    /\ clock < MaxTick
    /\ clock' = clock + 1
    /\ remote' = Put(remote, id, Entry(Now(clock')))
    /\ UNCHANGED <<data_store, file, pc, meta, outdated_ids, locals, err, trace>>
    /\ UNCHANGED aside

\* =============================================== the watched-bitfield codec
\* A byte buffer is a sequence of integers 0..255; position k of the model
\* is Python's index k - 1.  An exception is the `raised` field of what a
\* call returns.
Ok(v) == [raised |-> "none", value |-> v]
Raise(e) == [raised |-> e, value |-> <<>>]

\* (byte & (1 << bit)) != 0
BitSet(byte, bit) == (byte \div (2 ^ bit)) % 2 = 1

\* Python's sequence subscript: -len..-1 count from the end, anything
\* outside -len..len-1 raises IndexError.
InRange(index, len) == -len <= index /\ index < len
Position(index, len) == IF index < 0 THEN len + index + 1 ELSE index + 1

\* bytearray(n): n zero bytes
ZeroBytes(n) == [k \in 1..n |-> 0]

\* math.ceil(n / 8)
CeilDiv8(n) == (n + 7) \div 8

\* BitField8(n_size)
BitField8(n_size) == [length |-> n_size, values |-> ZeroBytes(CeilDiv8(n_size))]

\* BitField8.get
BitField8_get(bf, i) ==
    LET index == i \div 8
        bit == i % 8
    IN  IF index >= Len(bf.values) THEN Ok(FALSE)
        ELSE IF ~InRange(index, Len(bf.values)) THEN Raise("IndexError")
        ELSE Ok(BitSet(bf.values[Position(index, Len(bf.values))], bit))

\* BitField8.set
BitField8_set(bf, i, val) ==
    LET index == i \div 8
        bit == i % 8
        mask == 2 ^ bit
    IN  IF ~InRange(index, Len(bf.values)) THEN Raise("IndexError")
        ELSE LET p == Position(index, Len(bf.values))
                 old == bf.values[p]
                 new == IF val
                        THEN (IF BitSet(old, bit) THEN old ELSE old + mask)
                        ELSE (IF BitSet(old, bit) THEN old - mask ELSE old)
             IN  Ok([bf EXCEPT !.values[p] = new])

\* BitField8.last_index_of: the scan from i down to 0
RECURSIVE ScanDown(_, _, _)
ScanDown(bf, val, i) ==
    IF i < 0 THEN -1
    ELSE IF BitField8_get(bf, i).value = val THEN i
    ELSE ScanDown(bf, val, i - 1)

last_index_of(bf, val) == ScanDown(bf, val, bf.length - 1)

\* zlib.compress / zlib.decompress and base64.b64encode / b64decode are
\* library codecs: decoding what was encoded gives the bytes back, decoding
\* anything else raises.  A payload is what b64encode(zlib.compress(values))
\* produced, or a string that is not one.
Packed(values) == [kind |-> "packed", bytes |-> values]
Garbage == [kind |-> "garbage", bytes |-> <<>>]

\* BitField8.to_packed followed by base64.b64encode(...).decode("ascii")
to_packed(bf) == Packed(bf.values)

\* from_packed that allocates the larger buffer and forgets the old bytes.
from_packed_fresh(compressed, length) ==
    IF compressed.kind # "packed" THEN Raise("zlib.error")
    ELSE Ok([length |-> length,
             values |-> ZeroBytes(IF CeilDiv8(length) > Len(compressed.bytes)
                                  THEN CeilDiv8(length)
                                  ELSE Len(compressed.bytes))])

\* base64.b64decode followed by BitField8.from_packed(decoded, length),
\* length an integer.
from_packed(compressed, length) ==
    IF compressed.kind # "packed" THEN Raise("zlib.error")
    ELSE LET values == compressed.bytes
             n_bytes == CeilDiv8(length)
         IN  Ok([length |-> length,
                 values |-> IF n_bytes > Len(values)
                            THEN values \o ZeroBytes(n_bytes - Len(values))
                            ELSE values])

\* ------------------------------------------------------- WatchedBitfield
\* A string is the sequence of its colon-separated fields, the last of them
\* kept apart: init holds the fields before the last one (text without a
\* colon), last the final field.  A video id such as "tt1:1:2" has three
\* fields, so in a formatted string its colons separate fields just as the
\* two colons of the format do.
Wire(fields, payload) == [init |-> fields, last |-> payload]
\* No string yet.
NoWire == Wire(<<>>, [kind |-> "none", bytes |-> <<>>])

\* f"{video_id}:{n}:{packed_str}"
Format(video_id, n, packed_str) == Wire(video_id \o <<ToString(n)>>, packed_str)

\* int(text), for the numerals up to MaxNumeral
MaxNumeral == MaxVideos + MaxShift + 1
int(text) ==
    IF \E k \in 0..MaxNumeral : ToString(k) = text
    THEN Ok(CHOOSE k \in 0..MaxNumeral : ToString(k) = text)
    ELSE Raise("ValueError")

WatchedBitfield(bf, ids) == [bitfield |-> bf, video_ids |-> ids]
NoBits == WatchedBitfield(BitField8(0), <<>>)

\* The loop of construct_from_array from element k on.
RECURSIVE SetEach(_, _, _)
SetEach(bf, a, k) ==
    IF k > Len(a) THEN Ok(bf)
    ELSE LET r == BitField8_set(bf, k - 1, a[k])
         IN  IF r.raised # "none" THEN r ELSE SetEach(r.value, a, k + 1)

construct_from_array(a, ids) ==
    LET r == SetEach(BitField8(Len(ids)), a, 1)
    IN  IF r.raised # "none" THEN r ELSE Ok(WatchedBitfield(r.value, ids))

\* serialize that writes the anchor's index where its length belongs.
serialize_index(wb) ==
    LET found == last_index_of(wb.bitfield, TRUE)
        last_idx == IF found > 0 THEN found ELSE 0
    IN  IF ~InRange(last_idx, Len(wb.video_ids)) THEN Raise("IndexError")
        ELSE Ok(Format(wb.video_ids[last_idx + 1], last_idx,
                       to_packed(wb.bitfield)))

\* WatchedBitfield.serialize
serialize(wb) ==
    LET found == last_index_of(wb.bitfield, TRUE)
        last_idx == IF found > 0 THEN found ELSE 0
    IN  IF ~InRange(last_idx, Len(wb.video_ids)) THEN Raise("IndexError")
        ELSE Ok(Format(wb.video_ids[last_idx + 1], last_idx + 1,
                       to_packed(wb.bitfield)))

\* The split that takes its fields without counting them: pop() of an empty
\* list raises IndexError.
SplitUnchecked(s) ==
    IF Len(s.init) < 1 THEN Raise("IndexError")
    ELSE LET n == int(s.init[Len(s.init)])
         IN  IF n.raised # "none" THEN n
             ELSE Ok([anchor_video_id |-> SubSeq(s.init, 1, Len(s.init) - 1),
                      anchor_length |-> n.value,
                      serialized_buf |-> s.last])

\* construct_and_resize, lines 96-100: split(":"), the field count, the two
\* pops, int() and the join of what is left.
Split(s) ==
    IF Len(s.init) + 1 < 3 THEN Raise("ValueError")
    ELSE LET n == int(s.init[Len(s.init)])
         IN  IF n.raised # "none" THEN n
             ELSE Ok([anchor_video_id |-> SubSeq(s.init, 1, Len(s.init) - 1),
                      anchor_length |-> n.value,
                      serialized_buf |-> s.last])

\* video_ids.index(anchor_video_id) if it is in video_ids, else -1
AnchorIndex(ids, anchor) ==
    IF \E k \in 1..Len(ids) : ids[k] = anchor
    THEN (CHOOSE k \in 1..Len(ids) :
              /\ ids[k] = anchor
              /\ \A j \in 1..(k - 1) : ids[j] # anchor) - 1
    ELSE -1

\* The copying loop that reads source index i, whatever the offset.
RECURSIVE RemapUnshifted(_, _, _, _, _)
RemapUnshifted(resized, prev, offset, i, n) ==
    IF i >= n THEN Ok(resized)
    ELSE IF 0 <= i /\ i < prev.length
         THEN LET g == BitField8_get(prev, i)
                  r == IF g.raised # "none" THEN g
                       ELSE BitField8_set(resized, i, g.value)
              IN  IF r.raised # "none" THEN r
                  ELSE RemapUnshifted(r.value, prev, offset, i + 1, n)
         ELSE RemapUnshifted(resized, prev, offset, i + 1, n)

\* construct_and_resize, lines 116-121: the copying loop from target index
\* i on.
RECURSIVE Remap(_, _, _, _, _)
Remap(resized, prev, offset, i, n) ==
    IF i >= n THEN Ok(resized)
    ELSE LET idx_in_prev == i + offset
         IN  IF 0 <= idx_in_prev /\ idx_in_prev < prev.length
             THEN LET g == BitField8_get(prev, idx_in_prev)
                      r == IF g.raised # "none" THEN g
                           ELSE BitField8_set(resized, i, g.value)
                  IN  IF r.raised # "none" THEN r
                      ELSE Remap(r.value, prev, offset, i + 1, n)
             ELSE Remap(resized, prev, offset, i + 1, n)

\* construct_and_resize that decodes the payload before it looks for the
\* anchor.
construct_and_resize_eager(s, ids) ==
    LET c == Split(s)
    IN  IF c.raised # "none" THEN c
        ELSE
        LET anchor_video_idx == AnchorIndex(ids, c.value.anchor_video_id)
            offset == (c.value.anchor_length - 1) - anchor_video_idx
            prev_buf == from_packed(c.value.serialized_buf, c.value.anchor_length)
        IN  IF prev_buf.raised # "none" THEN prev_buf
            ELSE IF anchor_video_idx = -1
            THEN Ok(WatchedBitfield(BitField8(Len(ids)), ids))
            ELSE IF offset # 0
            THEN LET r == Remap(BitField8(Len(ids)), prev_buf.value, offset,
                                0, Len(ids))
                 IN  IF r.raised # "none" THEN r
                     ELSE Ok(WatchedBitfield(r.value, ids))
            ELSE LET buf == from_packed(c.value.serialized_buf, Len(ids))
                 IN  Ok(WatchedBitfield(buf.value, ids))

\* WatchedBitfield.construct_and_resize
construct_and_resize(s, ids) ==
    LET c == Split(s)
    IN  IF c.raised # "none" THEN c
        ELSE
        LET anchor_video_idx == AnchorIndex(ids, c.value.anchor_video_id)
            offset == (c.value.anchor_length - 1) - anchor_video_idx
            anchor_not_found == anchor_video_idx = -1
            must_shift == offset # 0
        IN  IF anchor_not_found \/ must_shift
            THEN IF anchor_not_found
                 THEN Ok(WatchedBitfield(BitField8(Len(ids)), ids))
                 ELSE LET prev_buf == from_packed(c.value.serialized_buf,
                                                  c.value.anchor_length)
                      IN  IF prev_buf.raised # "none" THEN prev_buf
                          ELSE LET r == Remap(BitField8(Len(ids)),
                                              prev_buf.value, offset,
                                              0, Len(ids))
                               IN  IF r.raised # "none" THEN r
                                   ELSE Ok(WatchedBitfield(r.value, ids))
            ELSE LET buf == from_packed(c.value.serialized_buf, Len(ids))
                 IN  IF buf.raised # "none" THEN buf
                     ELSE Ok(WatchedBitfield(buf.value, ids))

\* ------------------------------------------------- the codec's operations
\* The video ids of an item: episode k of season 1 of a series.  Season 0
\* sorts in front of it, season 2 behind it.
VideoId(k) == <<"tt1", "1", ToString(k)>>
FrontId(k) == <<"tt1", "0", ToString(k)>>
BackId(k) == <<"tt1", "2", ToString(k)>>

\* The list of video ids after j ids were put in front of `ids`, k were
\* taken from its front and a were added at its end.
NewIds(ids, j, k, a) ==
    [x \in 1..j |-> FrontId(x)]
        \o SubSeq(ids, k + 1, Len(ids))
        \o [x \in 1..a |-> BackId(x)]

\* Strings that no serialize() of this run produced: too few fields, a
\* length that is no number, payloads that are not packed flags, anchors of
\* another item.
ForeignWires ==
    { Wire(<<>>, Garbage),
      Wire(<<>>, Packed(<<1>>)),
      Wire(<<"1">>, Packed(<<1>>)),
      Wire(<<"tt1">>, Garbage),
      Wire(<<"tt9", "2">>, Garbage),
      Wire(<<"tt9", "2">>, Packed(<<255>>)),
      Wire(VideoId(1) \o <<"x">>, Packed(<<1>>)),
      Wire(VideoId(1) \o <<"1">>, Garbage),
      Wire(VideoId(2) \o <<"1">>, Packed(<<255>>)) }

\* Bit indices handed to get and set: below, inside and beyond the buffer.
MaxBytes == CeilDiv8(MaxVideos)
Indices == (0 - (8 * MaxBytes + 1))..(8 * MaxBytes + 1)
\* Lengths handed to from_packed: up to one byte more than any buffer.
Lengths == 0..(8 * (MaxBytes + 1))

NoCall == [name |-> "none"]

\* The cache's variables; the codec's operations leave them alone.
cache == <<data_store, file, remote, clock, pc, meta, outdated_ids, op,
           refresh, cached_store, response, pushed, err, trace, requested,
           before, file_before>>

\* WatchedBitfield.construct_from_array(arr, video_ids)
Construct ==
    /\ call = NoCall
    /\ LET r == construct_from_array(arr, video_ids)
       IN  /\ returned' = r
           /\ bitfield' = IF r.raised = "none" THEN r.value ELSE bitfield
    /\ call' = [name |-> "construct_from_array"]
    /\ UNCHANGED <<arr, video_ids, serialized>>
    /\ UNCHANGED <<cache, watch, gather>>

\* The flags are built and no further call was made on them: the codec's
\* functions are each called on the flags as construct_from_array left them.
Ready == call.name \in {"construct_from_array", "serialize"}

\* bitfield.serialize()
Serialize ==
    /\ call.name = "construct_from_array"
    /\ LET r == serialize(bitfield)
       IN  /\ returned' = r
           /\ serialized' = IF r.raised = "none" THEN r.value ELSE serialized
    /\ call' = [name |-> "serialize"]
    /\ UNCHANGED <<arr, video_ids, bitfield>>
    /\ UNCHANGED <<cache, watch, gather>>

\* WatchedBitfield.construct_and_resize(serialized, ids) against the list
\* the item has by now.
Resize(j, k, a) ==
    /\ call.name = "serialize"
    /\ serialized # NoWire
    /\ k <= Len(video_ids)
    /\ LET ids == NewIds(video_ids, j, k, a)
       IN  /\ call' = [name |-> "construct_and_resize", wire |-> serialized,
                       ids |-> ids, inserted |-> j, removed |-> k,
                       appended |-> a]
           /\ returned' = construct_and_resize(serialized, ids)
    /\ UNCHANGED <<arr, video_ids, bitfield, serialized>>
    /\ UNCHANGED <<cache, watch, gather>>

\* WatchedBitfield.construct_and_resize(w, video_ids) on a string from
\* elsewhere.
ResizeForeign(w) ==
    /\ Ready
    /\ call' = [name |-> "construct_and_resize", wire |-> w,
                ids |-> video_ids, inserted |-> 0, removed |-> 0,
                appended |-> 0]
    /\ returned' = construct_and_resize(w, video_ids)
    /\ UNCHANGED <<arr, video_ids, bitfield, serialized>>
    /\ UNCHANGED <<cache, watch, gather>>

\* BitField8.from_packed(bitfield.to_packed(), length)
FromPacked(length) ==
    /\ Ready
    /\ call' = [name |-> "from_packed",
                compressed |-> to_packed(bitfield.bitfield),
                length |-> length]
    /\ returned' = from_packed(to_packed(bitfield.bitfield), length)
    /\ UNCHANGED <<arr, video_ids, bitfield, serialized>>
    /\ UNCHANGED <<cache, watch, gather>>

\* bitfield.get(i)
Get(i) ==
    /\ Ready
    /\ call' = [name |-> "get", i |-> i]
    /\ returned' = BitField8_get(bitfield.bitfield, i)
    /\ UNCHANGED <<arr, video_ids, bitfield, serialized>>
    /\ UNCHANGED <<cache, watch, gather>>

\* bitfield.set(i, val): the flags change in place unless it raises.
Set(i, val) ==
    /\ Ready
    /\ LET r == BitField8_set(bitfield.bitfield, i, val)
       IN  /\ returned' = IF r.raised = "none" THEN Ok(<<>>) ELSE r
           /\ bitfield' = IF r.raised = "none"
                          THEN [bitfield EXCEPT !.bitfield = r.value]
                          ELSE bitfield
    /\ call' = [name |-> "set", i |-> i, val |-> val, was |-> bitfield.bitfield]
    /\ UNCHANGED <<arr, video_ids, serialized>>
    /\ UNCHANGED <<cache, watch, gather>>

\* ===================================================== the library entry
\* STREMIO_WATCHED_COEFFICIENT = 0.7 and STREMIO_CREDITS_COEFFICIENT = 0.9,
\* as numerator and denominator.
STREMIO_WATCHED_COEFFICIENT == <<7, 10>>
STREMIO_CREDITS_COEFFICIENT == <<9, 10>>

\* t > d * coefficient.  For the durations 0 and 3600 the float products
\* d * 0.7 and d * 0.9 are the exact integers 2520 and 3240, so the float
\* comparison of the code and this one agree.
Exceeds(t, d, coefficient) == t * coefficient[2] > d * coefficient[1]

\* None, for a time and for a video id.  The time of the k-th call is k.
NoTime == 0
NoVideo == <<>>

\* The videos of the item the entry is about, in the order of its metadata.
ItemVideos == <<<<"v1">>, <<"v2">>>>
Durations == {3600}
Offsets == {20, 2500, 2520, 3300}

\* WatchState() with the dataclass defaults
WatchState ==
    [lastWatched |-> NoTime, timeWatched |-> 0, timeOffset |-> 0,
     overallTimeWatched |-> 0, timesWatched |-> 0, flaggedWatched |-> 0,
     duration |-> 0, video_id |-> NoVideo, watched |-> NoWire,
     watched_bitfield |-> NoBits]

\* A StremioLibrary entry as it comes from the data store.
StremioLibrary(removed, temp, duration, wb) ==
    [removed |-> removed, temp |-> temp, _ctime |-> NoTime, _mtime |-> NoTime,
     state |-> [WatchState EXCEPT !.duration = duration,
                                  !.watched_bitfield = wb]]

\* WatchState.create_bitfield(ItemVideos) while `watched` is None
CreatedBitfield == construct_from_array(<<>>, ItemVideos).value

\* StremioLibrary._set_time at time `now`
_set_time(e, now, set_last_watched) ==
    [e EXCEPT !._mtime = now,
              !._ctime = IF e._ctime = NoTime THEN now ELSE e._ctime,
              !.state.lastWatched =
                  IF set_last_watched \/ e.state.lastWatched = NoTime
                  THEN now ELSE e.state.lastWatched]

\* WatchedBitfield.set_video: an id that is not in the list is ignored.
set_video(wb, video_id, v) ==
    LET idx == AnchorIndex(wb.video_ids, video_id)
    IN  IF idx = -1 THEN Ok(wb)
        ELSE LET r == BitField8_set(wb.bitfield, idx, v)
             IN  IF r.raised # "none" THEN r
                 ELSE Ok([wb EXCEPT !.bitfield = r.value])

\* The watched time a report adds, taken as the plain difference.
time_diff_signed(progress, timeOffset) == progress - timeOffset

\* time_diff = max(progress - self.state.timeOffset, 0)
time_diff(progress, timeOffset) ==
    IF progress - timeOffset > 0 THEN progress - timeOffset ELSE 0

\* The watched flag of this pass, raised once the offset reaches the
\* threshold instead of the time watched exceeding it.
FlagWatchedByOffset(s, video_id) ==
    IF s.flaggedWatched = 0
       /\ Exceeds(s.timeOffset + 1, s.duration, STREMIO_WATCHED_COEFFICIENT)
    THEN Ok([s EXCEPT !.flaggedWatched = 1, !.timesWatched = @ + 1])
    ELSE Ok(s)

\* The watched flag raised whenever the time watched exceeds the threshold,
\* flagged in this pass or not.
FlagWatchedAgain(s, video_id) ==
    IF Exceeds(s.timeWatched, s.duration, STREMIO_WATCHED_COEFFICIENT)
    THEN Ok([s EXCEPT !.flaggedWatched = 1, !.timesWatched = @ + 1])
    ELSE Ok(s)

\* update_progress, lines 224-231: the watched flag of this pass
FlagWatched(s, video_id) ==
    IF s.flaggedWatched = 0
       /\ Exceeds(s.timeWatched, s.duration, STREMIO_WATCHED_COEFFICIENT)
    THEN LET flagged == [s EXCEPT !.flaggedWatched = 1,
                                  !.timesWatched = @ + 1]
         IN  IF s.watched_bitfield = NoBits THEN Ok(flagged)
             ELSE LET wb == set_video(s.watched_bitfield, video_id, TRUE)
                      w == IF wb.raised # "none" THEN wb
                           ELSE serialize(wb.value)
                  IN  IF w.raised # "none" THEN w
                      ELSE Ok([flagged EXCEPT !.watched_bitfield = wb.value,
                                              !.watched = w.value])
    ELSE Ok(s)

\* update_progress that leaves `removed` as it finds it.
update_progress_keeps_removed(e, now, progress, duration, video_id) ==
    LET stamped == _set_time(e, now, TRUE)
        s0 == stamped.state
        s1 == IF s0.video_id # video_id
              THEN [s0 EXCEPT !.video_id = video_id,
                              !.overallTimeWatched = @ + s0.timeWatched,
                              !.timeWatched = 0,
                              !.flaggedWatched = 0]
              ELSE [s0 EXCEPT
                       !.timeWatched = @ + time_diff(progress, s0.timeOffset),
                       !.overallTimeWatched =
                           @ + time_diff(progress, s0.timeOffset)]
        s2 == [s1 EXCEPT !.timeOffset = progress, !.duration = duration]
        s3 == FlagWatched(s2, video_id)
    IN  IF s3.raised # "none" THEN s3
        ELSE Ok([stamped EXCEPT !.state = s3.value,
                                !.temp = IF stamped.removed THEN TRUE
                                         ELSE stamped.temp])

\* StremioLibrary.update_progress at time `now`
update_progress(e, now, progress, duration, video_id) ==
    LET stamped == _set_time(e, now, TRUE)
        s0 == stamped.state
        s1 == IF s0.video_id # video_id
              THEN [s0 EXCEPT !.video_id = video_id,
                              !.overallTimeWatched = @ + s0.timeWatched,
                              !.timeWatched = 0,
                              !.flaggedWatched = 0]
              ELSE [s0 EXCEPT
                       !.timeWatched = @ + time_diff(progress, s0.timeOffset),
                       !.overallTimeWatched =
                           @ + time_diff(progress, s0.timeOffset)]
        s2 == [s1 EXCEPT !.timeOffset = progress, !.duration = duration]
        s3 == FlagWatched(s2, video_id)
    IN  IF s3.raised # "none" THEN s3
        ELSE LET removed == IF stamped.temp /\ s3.value.timesWatched = 0
                            THEN TRUE ELSE stamped.removed
                 temp == IF removed THEN TRUE ELSE stamped.temp
             IN  Ok([stamped EXCEPT !.state = s3.value,
                                    !.removed = removed,
                                    !.temp = temp])

\* def get_subtitles_by_id(self, id, media_type): a call with another
\* number of arguments raises TypeError before the body runs.
SubtitleParameters == <<"id", "media_type">>
get_subtitles_by_id(args) ==
    IF Len(args) # Len(SubtitleParameters) THEN Raise("TypeError")
    ELSE Ok(<<>>)

\* The Video handed to start_stop: None, a video that is the last one, or a
\* video with a next episode.
NoEpisode == [present |-> FALSE, next_episode |-> NoVideo]
Episode(next_id) == [present |-> TRUE, next_episode |-> next_id]

\* StremioLibrary.start_stop.  self.type is "series"; whether the next
\* episode is then played (run_plugin) changes nothing of the entry.
start_stop(e, video_id, episode) ==
    LET s == e.state
    IN  IF ~Exceeds(s.timeOffset, s.duration, STREMIO_CREDITS_COEFFICIENT)
        THEN Ok(e)
        ELSE LET subs == get_subtitles_by_id(<<video_id, "series", "">>)
             IN  IF subs.raised # "none" THEN subs
                 ELSE IF episode.present /\ episode.next_episode # NoVideo
                 THEN Ok([e EXCEPT !.state =
                            [s EXCEPT !.video_id = episode.next_episode,
                                      !.overallTimeWatched = @ + s.timeWatched,
                                      !.timeWatched = 0,
                                      !.flaggedWatched = 0,
                                      !.timeOffset = 1]])
                 ELSE Ok([e EXCEPT !.state.timeOffset = 0])

\* ---------------------------------------------- the entry's operations
\* entry.update_progress(progress, duration, video_id), as the player
\* reports its position.
UpdateProgress(progress, duration, video_id) ==
    /\ Len(calls) < MaxCalls
    /\ calls' = Append(calls, [name |-> "update_progress",
                               progress |-> progress, duration |-> duration,
                               video_id |-> video_id, was |-> entry])
    /\ LET r == update_progress(entry, Len(calls) + 1, progress, duration,
                                video_id)
       IN  /\ failure' = r.raised
           /\ entry' = IF r.raised = "none" THEN r.value ELSE entry
    /\ UNCHANGED <<cache, codec, gather>>

\* entry.start_stop(video_id, episode), as playback starts or stops.
StartStop(video_id, episode) ==
    /\ Len(calls) < MaxCalls
    /\ calls' = Append(calls, [name |-> "start_stop", video_id |-> video_id,
                               episode |-> episode, was |-> entry])
    /\ LET r == start_stop(entry, video_id, episode)
       IN  /\ failure' = r.raised
           /\ entry' = IF r.raised = "none" THEN r.value ELSE entry
    /\ UNCHANGED <<cache, codec, gather>>

\* ------------------------------------------ the operations that push
\* What a call leaves: the entry as it is when the call ends, and the
\* exception that ended it.
Left(e, raised) == [raised |-> raised, value |-> e]

\* push that hands the entry to set_data without stamping it.
push_unstamped(e, now, o) ==
    Left(e, IF o = "write_ok" THEN "none" ELSE "PersistenceError")

\* StremioLibrary.push at time `now`: _set_time(False), then set_data, whose
\* write of the cache file has outcome o and raises when it fails (the
\* upload's failure is swallowed by _post).  What set_data does to the
\* cache is the subject of Push_Begin, SD_Write and SD_Post.
push(e, now, o) ==
    Left(_set_time(e, now, FALSE),
         IF o = "write_ok" THEN "none" ELSE "PersistenceError")

\* StremioLibrary.set_library_status
set_library_status(e, now, status, o) ==
    push([e EXCEPT !.removed = ~status, !.temp = FALSE], now, o)

\* StremioLibrary.clear_progress
clear_progress(e, now, o) == push([e EXCEPT !.state.timeOffset = 0], now, o)

\* StremioLibrary.dismiss_notification
dismiss_notification(e, now, o) == push(_set_time(e, now, TRUE), now, o)

\* StremioLibrary.mark_watched: with a video id and no watched_bitfield the
\* attribute lookup on None raises.
mark_watched(e, now, status, video_id, o) ==
    IF video_id # NoVideo
    THEN IF e.state.watched_bitfield = NoBits THEN Left(e, "AttributeError")
         ELSE LET wb == set_video(e.state.watched_bitfield, video_id, status)
                  w == IF wb.raised # "none" THEN wb ELSE serialize(wb.value)
              IN  IF wb.raised # "none" THEN Left(e, wb.raised)
                  ELSE IF w.raised # "none"
                  THEN Left([e EXCEPT !.state.watched_bitfield = wb.value],
                            w.raised)
                  ELSE push([e EXCEPT !.state.watched_bitfield = wb.value,
                                      !.state.watched = w.value], now, o)
    ELSE push([e EXCEPT !.state.timesWatched = IF status THEN 1 ELSE 0],
              now, o)

\* entry.set_library_status(status), from the context menu.
SetLibraryStatus(status, o) ==
    /\ Len(calls) < MaxCalls
    /\ calls' = Append(calls, [name |-> "set_library_status",
                               status |-> status, was |-> entry])
    /\ LET r == set_library_status(entry, Len(calls) + 1, status, o)
       IN  failure' = r.raised /\ entry' = r.value
    /\ UNCHANGED <<cache, codec, gather>>

\* entry.clear_progress()
ClearProgress(o) ==
    /\ Len(calls) < MaxCalls
    /\ calls' = Append(calls, [name |-> "clear_progress", was |-> entry])
    /\ LET r == clear_progress(entry, Len(calls) + 1, o)
       IN  failure' = r.raised /\ entry' = r.value
    /\ UNCHANGED <<cache, codec, gather>>

\* entry.dismiss_notification()
DismissNotification(o) ==
    /\ Len(calls) < MaxCalls
    /\ calls' = Append(calls, [name |-> "dismiss_notification",
                               was |-> entry])
    /\ LET r == dismiss_notification(entry, Len(calls) + 1, o)
       IN  failure' = r.raised /\ entry' = r.value
    /\ UNCHANGED <<cache, codec, gather>>

\* entry.mark_watched(status, video_id); video_id None marks the item.
MarkWatched(status, video_id, o) ==
    /\ Len(calls) < MaxCalls
    /\ calls' = Append(calls, [name |-> "mark_watched", status |-> status,
                               video_id |-> video_id, was |-> entry])
    /\ LET r == mark_watched(entry, Len(calls) + 1, status, video_id, o)
       IN  failure' = r.raised /\ entry' = r.value
    /\ UNCHANGED <<cache, codec, gather>>

\* ============================================ get_metadata_by_libraries
\* A StremioMeta is reduced to the id it describes.  A lookup
\* (get_metadata_by_id) either returns the StremioMeta built from what the
\* meta addons answered, or raises: reduce() of no answer at all, of an
\* answer that is no dict, or from_dict of what cannot be a StremioMeta.
Meta(id) == [id |-> id]
None == [id |-> "None"]
LookupOutcomes == {"meta", "raises"}

\* The worker threads: thread i looks up libraries[i].
Items == 1..Len(libraries)

\* Thread i has ended, by returning or by an exception.
Ended(i) == tpc[i] \in {"done", "raised"}

\* get_metadata_by_libraries(libs): responses gets a None for every item,
\* the threads are created and started.
GM_Begin(libs) ==
    /\ gpc = "idle"
    /\ libraries' = libs
    /\ responses' = [i \in 1..Len(libs) |-> None]
    /\ tpc' = [i \in 1..Len(libs) |-> "started"]
    /\ gpc' = "join"
    /\ UNCHANGED <<metadata, finished, listed>>
    /\ UNCHANGED <<cache, codec, watch>>

\* Thread i, get_metadata_by_id: `if id not in self.metadata or refresh`
\* (refresh is False).
GM_Check(i) ==
    /\ i \in Items
    /\ tpc[i] = "started"
    /\ tpc' = [tpc EXCEPT ![i] = IF libraries[i] \in metadata
                                 THEN "return" ELSE "fetch"]
    /\ UNCHANGED <<libraries, responses, metadata, finished, listed, gpc>>
    /\ UNCHANGED <<cache, codec, watch>>

\* Thread i, get_metadata_by_id: the requests to the meta addons, and
\* self.metadata[id] = StremioMeta.from_dict(reduce(...)).  An exception
\* ends the thread and leaves responses[i] None.
GM_Fetch(i, o) ==
    /\ i \in Items
    /\ tpc[i] = "fetch"
    /\ IF o = "meta"
       THEN /\ metadata' = metadata \cup {libraries[i]}
            /\ tpc' = [tpc EXCEPT ![i] = "return"]
            /\ finished' = finished
       ELSE /\ metadata' = metadata
            /\ tpc' = [tpc EXCEPT ![i] = "raised"]
            /\ finished' = Append(finished, i)
    /\ UNCHANGED <<libraries, responses, listed, gpc>>
    /\ UNCHANGED <<cache, codec, watch>>

\* Thread i: responses[idx] = self.metadata[id], and the thread ends.
GM_Store(i) ==
    /\ i \in Items
    /\ tpc[i] = "return"
    /\ responses' = [responses EXCEPT ![i] = Meta(libraries[i])]
    /\ tpc' = [tpc EXCEPT ![i] = "done"]
    /\ finished' = Append(finished, i)
    /\ UNCHANGED <<libraries, metadata, listed, gpc>>
    /\ UNCHANGED <<cache, codec, watch>>

\* [r for r in responses if r]
Truthies(rs) == SelectSeq(rs, LAMBDA r : r # None)

\* The return that waits for no thread.
GM_JoinNone ==
    /\ gpc = "join"
    /\ listed' = Truthies(responses)
    /\ gpc' = "returned"
    /\ UNCHANGED <<libraries, responses, metadata, tpc, finished>>
    /\ UNCHANGED <<cache, codec, watch>>

\* [t.join() for t in threads] returns once every thread has ended; then
\* the responses that are not None are returned.
GM_Join ==
    /\ gpc = "join"
    /\ \A i \in Items : Ended(i)
    /\ listed' = Truthies(responses)
    /\ gpc' = "returned"
    /\ UNCHANGED <<libraries, responses, metadata, tpc, finished>>
    /\ UNCHANGED <<cache, codec, watch>>

\* ------------------------------------------------- specification
\* The process starts with nothing loaded and no file; StremioAPI() then
\* runs get_data_store().
CacheInit ==
    /\ data_store = EmptyStore
    /\ file = AbsentFile
    /\ remote = EmptyStore
    /\ clock = 0
    /\ pc = [t \in Threads |-> "idle"]
    /\ meta = [t \in Threads |-> EmptyStore]
    /\ outdated_ids = [t \in Threads |-> {}]
    /\ op = "none"
    /\ refresh = FALSE
    /\ cached_store = NoCache
    /\ response = EmptyStore
    /\ pushed = "none"
    /\ err = "none"
    /\ trace = <<>>
    /\ requested = {}
    /\ before = EmptyStore
    /\ file_before = AbsentFile

\* No codec call was made.
CodecIdle ==
    /\ arr = <<>>
    /\ video_ids = <<>>
    /\ bitfield = NoBits
    /\ serialized = NoWire
    /\ call = NoCall
    /\ returned = Ok(<<>>)

\* No library entry is played.
WatchIdle ==
    /\ entry = StremioLibrary(TRUE, TRUE, 0, NoBits)
    /\ calls = <<>>
    /\ failure = "none"

\* No metadata is cached or looked up.
GatherIdle ==
    /\ libraries = <<>>
    /\ metadata = {}
    /\ responses = <<>>
    /\ tpc = <<>>
    /\ finished = <<>>
    /\ listed = <<>>
    /\ gpc = "idle"

Init ==
    /\ CacheInit
    /\ CodecIdle
    /\ WatchIdle
    /\ GatherIdle

\* The operations of the initiating thread on the cache, and the remote.
Next ==
    \/ \E r \in BOOLEAN : GDS_Begin(r)
    \/ GDS_Load
    \/ GDS_Post
    \/ GDS_Assign
    \/ GDS_Write
    \/ Sync_Begin
    \/ UDS_Meta(Main)
    \/ UDS_Check(Main)
    \/ get_data_by_ids(Main)
    \/ UDS_Write(Main)
    \/ \E id \in Ids : Push_Begin(id)
    \/ SD_Write
    \/ SD_Post
    \/ Return
    \/ \E id \in Ids : RemoteEdit(id)

Spec == Init /\ [][Next]_vars

\* The same with get_notifications and its worker threads.
NextNotify ==
    \/ Next
    \/ GN_Begin
    \/ \E w \in Workers : UDS_Meta(w)
    \/ \E w \in Workers : UDS_Check(w)
    \/ \E w \in Workers : get_data_by_ids(w)
    \/ \E w \in Workers : UDS_Write(w)
    \/ \E w \in Workers : Cat_Get(w)
    \/ GN_Join

SpecNotify == Init /\ [][NextNotify]_vars

\* The codec on its own: an item with n videos and their watched flags, on
\* which the codec's functions are called.
InitBits ==
    /\ CacheInit
    /\ \E n \in 0..MaxVideos :
           /\ video_ids = [k \in 1..n |-> VideoId(k)]
           /\ arr \in [1..n -> BOOLEAN]
    /\ bitfield = NoBits
    /\ serialized = NoWire
    /\ call = NoCall
    /\ returned = Ok(<<>>)
    /\ WatchIdle
    /\ GatherIdle

NextBits ==
    \/ Construct
    \/ Serialize
    \/ \E j \in 0..MaxShift, k \in 0..MaxShift, a \in 0..1 : Resize(j, k, a)
    \/ \E w \in ForeignWires : ResizeForeign(w)
    \/ \E n \in Lengths : FromPacked(n)
    \/ \E i \in Indices : Get(i)
    \/ \E i \in Indices, val \in BOOLEAN : Set(i, val)

SpecBits == InitBits /\ [][NextBits]_vars

\* A library entry on its own: an entry of the data store, in the library
\* or not, watched before or not, with or without the watched flags of its
\* videos, is played.
InitWatch ==
    /\ CacheInit
    /\ CodecIdle
    /\ \E removed \in BOOLEAN, temp \in BOOLEAN, duration \in {0} \cup Durations,
          wb \in {NoBits, CreatedBitfield}, timesWatched \in {0, 1} :
           entry = [StremioLibrary(removed, temp, duration, wb)
                        EXCEPT !.state.timesWatched = timesWatched]
    /\ calls = <<>>
    /\ failure = "none"
    /\ GatherIdle

NextWatch ==
    \/ \E progress \in Offsets, duration \in Durations,
          video_id \in {ItemVideos[k] : k \in 1..Len(ItemVideos)} :
           UpdateProgress(progress, duration, video_id)
    \/ \E episode \in {NoEpisode, Episode(NoVideo), Episode(ItemVideos[2])} :
           StartStop(ItemVideos[1], episode)

SpecWatch == InitWatch /\ [][NextWatch]_vars

\* Every operation that can change a library entry, on an entry of the data
\* store that was never touched.
InitEntry ==
    /\ CacheInit
    /\ CodecIdle
    /\ \E removed \in BOOLEAN, temp \in BOOLEAN,
          wb \in {NoBits, CreatedBitfield} :
           entry = StremioLibrary(removed, temp, 0, wb)
    /\ calls = <<>>
    /\ failure = "none"
    /\ GatherIdle

NextEntry ==
    \/ \E progress \in {20, 3300} :
           UpdateProgress(progress, 3600, ItemVideos[1])
    \/ \E episode \in {NoEpisode, Episode(ItemVideos[2])} :
           StartStop(ItemVideos[1], episode)
    \/ \E status \in BOOLEAN, o \in WriteOutcomes : SetLibraryStatus(status, o)
    \/ \E o \in WriteOutcomes : ClearProgress(o)
    \/ \E o \in WriteOutcomes : DismissNotification(o)
    \/ \E status \in BOOLEAN, video_id \in {NoVideo, ItemVideos[1]},
          o \in WriteOutcomes :
           MarkWatched(status, video_id, o)

SpecEntry == InitEntry /\ [][NextEntry]_vars

\* get_metadata_by_libraries on its own: some metadata is cached already,
\* the library items (an id may occur twice) are looked up by one thread
\* each, in any interleaving.
InitGather ==
    /\ CacheInit
    /\ CodecIdle
    /\ WatchIdle
    /\ libraries = <<>>
    /\ metadata \in SUBSET Ids
    /\ responses = <<>>
    /\ tpc = <<>>
    /\ finished = <<>>
    /\ listed = <<>>
    /\ gpc = "idle"

NextGather ==
    \/ \E n \in 0..MaxItems : \E libs \in [1..n -> Ids] : GM_Begin(libs)
    \/ \E i \in 1..MaxItems : GM_Check(i)
    \/ \E i \in 1..MaxItems, o \in LookupOutcomes : GM_Fetch(i, o)
    \/ \E i \in 1..MaxItems : GM_Store(i)
    \/ GM_Join

SpecGather == InitGather /\ [][NextGather]_vars

\* ================================================================ claims
InTrace(e) == \E k \in 1..Len(trace) : trace[k] = e

LastOfTrace(e) == Len(trace) > 0 /\ trace[Len(trace)] = e

MainDone(name) == pc[Main] = "done" /\ op = name

Holds(store, i, e) == i \in DOMAIN store /\ store[i] = e

\* The entries update_data_store compares the listing with: those held when
\* a plain sync began, or those just loaded from the file by get_data_store.
SyncBase == IF op = "sync" THEN before ELSE cached_store.store

\* C1: in push the entry is stored in memory and the file is written before
\* the upload is attempted, and when the upload fails the file holds the
\* entry's new state.
C1_PushDurableBeforeUpload ==
    (op = "push" /\ (pc[Main] = "sd_post" \/ InTrace("put_ok") \/ InTrace("put_fail")))
        => /\ Len(trace) >= 2 /\ trace[1] = "store" /\ trace[2] = "write_ok"
           /\ pushed \in DOMAIN data_store
           /\ data_store[pushed] # IF pushed \in DOMAIN before
                                   THEN before[pushed] ELSE Entry(0)
           /\ file.kind = "ok"
           /\ Holds(file.store, pushed, data_store[pushed])

C1_Witness ==
    /\ MainDone("push")
    /\ trace = <<"store", "write_ok", "put_fail">>
    /\ pushed \in DOMAIN before
    /\ Holds(file.store, pushed, data_store[pushed])
    /\ pushed \notin DOMAIN remote

\* C2: a push whose upload failed reports a TransportError to its caller,
\* after the local write succeeded.
C2_PushReportsTransportError ==
    (MainDone("push") /\ InTrace("put_fail"))
        => (err = "TransportError" /\ InTrace("write_ok"))

C5_SyncedEntriesNotOlder ==
    (pc[Main] = "done" /\ op \in {"sync", "load"}
        /\ InTrace("meta_ok") /\ ~InTrace("fetch_fail"))
        => \A i \in DOMAIN meta[Main] :
               i \in DOMAIN data_store /\ data_store[i].mtime >= meta[Main][i]

C5_Witness ==
    /\ MainDone("sync")
    /\ InTrace("meta_ok") /\ InTrace("fetch_ok")
    /\ \E i \in DOMAIN before : i \in requested /\ data_store[i].mtime > before[i].mtime
    /\ \E i \in DOMAIN data_store : i \notin DOMAIN meta[Main]

\* C6: a transport failure of the listing or of the record fetch during a
\* sync is swallowed: no error reaches the caller and the entries are the
\* ones held before.
C6_SyncSwallowsTransportFailure ==
    /\ (MainDone("sync") /\ (InTrace("meta_fail") \/ InTrace("fetch_fail")))
        => /\ data_store = before
           /\ err # "TransportError"
           /\ (~InTrace("write_dump_fail") => err = "none")
    /\ (pc[Main] = "done" /\ op = "load"
            /\ (InTrace("meta_fail") \/ InTrace("fetch_fail")))
        => /\ data_store = cached_store.store
           /\ err # "TransportError"

C6_Witness ==
    /\ MainDone("sync")
    /\ trace = <<"meta_ok", "fetch_fail", "write_ok">>
    /\ err = "none"
    /\ DOMAIN before # {}
    /\ data_store = before

\* C7: when the snapshot fetch of a load or a forced refresh fails, every
\* entry held in memory is still held unchanged and the entries recorded in
\* the file are not replaced or emptied.
C7_SnapshotFailureKeepsState ==
    (pc[Main] = "done" /\ op \in {"load", "refresh"} /\ InTrace("snapshot_fail"))
        => /\ \A i \in DOMAIN before : Holds(data_store, i, before[i])
           /\ \A i \in DOMAIN file_before.store :
                  Holds(file.store, i, file_before.store[i])

\* C8: when serializing fails part-way through write_data_store, the file
\* that existed before still holds its previous content.
C8_WriteAllOrNothing ==
    (LastOfTrace("write_dump_fail") /\ ~InTrace("write_ok")
        /\ file_before.kind = "ok")
        => file = file_before

\* C9: the cache (entries and file) is mutated only by the initiating
\* thread, and only while no worker thread is running.
C9_OnlyInitiatorMutatesCache ==
    [][(data_store' # data_store \/ file' # file)
          => \A w \in Workers : pc[w] = "idle" /\ pc'[w] = "idle"]_vars

\* C10: an id that is a key of the entries stays a key over load, refresh,
\* sync and push (checked over the operations whose remote calls succeed).
C10_EntriesNeverDestroyed ==
    (pc[Main] = "done" /\ ~InTrace("snapshot_fail"))
        => DOMAIN before \subseteq DOMAIN data_store

\* ------------------------------------------------------ the codec's claims
\* The call made last was construct_and_resize on the string that serialize
\* returned in this run.
DecodedOwn == call.name = "construct_and_resize" /\ call.wire = serialized

\* Position p (from 1) of the decoded flags reads v.
Reads(p, v) == BitField8_get(returned.value.bitfield, p - 1) = Ok(v)

\* C11: decoding the serialized form of the flags built from a boolean
\* sequence b of length n > 0 over n unique ids, against the same ids,
\* gives flags with get(i) = b[i] for every 0 <= i < n.
C11_RoundTrip ==
    (DecodedOwn /\ call.ids = video_ids /\ Len(arr) > 0)
    => /\ returned.raised = "none"
       /\ \A p \in 1..Len(arr) : Reads(p, arr[p])

\* A round trip of MaxVideos flags, the first unwatched and the last, in the
\* second byte, watched.
C11_Witness ==
    /\ DecodedOwn
    /\ call.ids = video_ids
    /\ Len(arr) = MaxVideos
    /\ ~arr[1]
    /\ arr[MaxVideos]
    /\ returned.raised = "none"
    /\ Reads(MaxVideos, TRUE)

\* s is the end of t.
IsSuffix(s, t) ==
    /\ Len(s) <= Len(t)
    /\ s = SubSeq(t, Len(t) - Len(s) + 1, Len(t))

Occurs(id, ids) == \E q \in 1..Len(ids) : ids[q] = id

\* `new` is `old` with k ids taken from its front and new ids put in front.
FrontChanged(old, new, k) ==
    /\ k \in 0..Len(old)
    /\ IsSuffix(SubSeq(old, k + 1, Len(old)), new)
    /\ \A p \in 1..(Len(new) - (Len(old) - k)) : ~Occurs(new[p], old)

\* Every id of both lists reads as it was built, every other id of the new
\* list reads unwatched.
Remapped ==
    /\ returned.raised = "none"
    /\ \A p \in 1..Len(call.ids) :
           /\ \A q \in 1..Len(video_ids) :
                  video_ids[q] = call.ids[p] => Reads(p, arr[q])
           /\ ~Occurs(call.ids[p], video_ids) => Reads(p, FALSE)

\* C12 as stated: decoding against a list that differs only by ids
\* inserted or removed at the front keeps the watched value of every id of
\* both lists and reads every inserted id unwatched.
C12_FrontChangeRemaps ==
    (DecodedOwn /\ \E k \in 0..Len(video_ids) :
                       FrontChanged(video_ids, call.ids, k))
    => Remapped

\* C12, amended: the same when ids were only inserted at the front, or
\* only removed from the front.
C12_FrontInsertOrRemoveRemaps ==
    (DecodedOwn /\ \/ FrontChanged(video_ids, call.ids, 0)
                   \/ IsSuffix(call.ids, video_ids))
    => Remapped

\* Three watched videos decoded against the list with one id put in front.
C12_Witness ==
    /\ DecodedOwn
    /\ arr = <<TRUE, TRUE, TRUE>>
    /\ call.ids = <<FrontId(1)>> \o video_ids
    /\ Reads(1, FALSE)
    /\ Reads(2, TRUE)
    /\ Reads(3, TRUE)
    /\ Reads(4, TRUE)

\* The string has at least three fields and a number for its length.
WellFormed(w) ==
    /\ Len(w.init) >= 2
    /\ \E n \in 0..MaxNumeral : ToString(n) = w.init[Len(w.init)]
    /\ w.last.kind \in {"packed", "garbage"}

\* C13: for a well-formed string whose anchor id is not in ids,
\* construct_and_resize returns flags of length len(ids) that all read
\* false, whatever the payload.
C13_AnchorAbsentAllFalse ==
    (/\ call.name = "construct_and_resize"
     /\ WellFormed(call.wire)
     /\ ~Occurs(SubSeq(call.wire.init, 1, Len(call.wire.init) - 1), call.ids))
    => /\ returned.raised = "none"
       /\ returned.value.bitfield.length = Len(call.ids)
       /\ returned.value.video_ids = call.ids
       /\ \A i \in 0..(8 * Len(returned.value.bitfield.values) - 1) :
              BitField8_get(returned.value.bitfield, i) = Ok(FALSE)

\* A string of another item with a payload that cannot be decoded, against
\* MaxVideos ids.
C13_Witness ==
    /\ call.name = "construct_and_resize"
    /\ call.wire = Wire(<<"tt9", "2">>, Garbage)
    /\ Len(call.ids) = MaxVideos
    /\ returned.raised = "none"
    /\ returned.value.bitfield.length = MaxVideos

\* C14: construct_and_resize on a string with fewer than three fields
\* raises ValueError and returns nothing.
C14_TooFewFieldsIsError ==
    (call.name = "construct_and_resize" /\ Len(call.wire.init) + 1 < 3)
    => returned.raised = "ValueError"

\* The two-field string "1:<payload>".
C14_Witness ==
    /\ call.name = "construct_and_resize"
    /\ call.wire = Wire(<<"1">>, Packed(<<1>>))
    /\ returned.raised = "ValueError"

\* C16: from_packed with a length n2 beyond the capacity of the packed
\* bytes of flags of length n1 keeps get(i) for i < n1 and reads false for
\* n1 <= i < n2.
C16_GrowthPreservesBits ==
    (/\ call.name = "from_packed"
     /\ call.length > 8 * Len(call.compressed.bytes))
    => /\ returned.raised = "none"
       /\ returned.value.length = call.length
       /\ \A i \in 0..(bitfield.bitfield.length - 1) :
              BitField8_get(returned.value, i)
                  = BitField8_get(bitfield.bitfield, i)
       /\ \A i \in bitfield.bitfield.length..(call.length - 1) :
              BitField8_get(returned.value, i) = Ok(FALSE)

\* MaxVideos flags, the last one watched, grown by a byte.
C16_Witness ==
    /\ call.name = "from_packed"
    /\ Len(arr) = MaxVideos
    /\ arr[MaxVideos]
    /\ call.length = 8 * (MaxBytes + 1)
    /\ Len(returned.value.values) = MaxBytes + 1
    /\ BitField8_get(returned.value, MaxVideos - 1) = Ok(TRUE)

\* C17: get(i) returns false and raises nothing for every i outside
\* [0, 8 * capacity), negative i included.
C17_GetOutsideReadsFalse ==
    (/\ call.name = "get"
     /\ \/ call.i < 0
        \/ call.i >= 8 * Len(bitfield.bitfield.values))
    => /\ returned.raised = "none"
       /\ returned.value = FALSE

\* C18: set(i, value) with i negative or at or beyond the capacity raises
\* IndexError and leaves every bit as it was.
C18_SetBoundsChecked ==
    (/\ call.name = "set"
     /\ \/ call.i < 0
        \/ call.i >= 8 * Len(call.was.values))
    => /\ returned.raised = "IndexError"
       /\ bitfield.bitfield = call.was

\* ------------------------------------------------ the library entry's claims
\* The call made last on the entry, and the one before it.
Last == calls[Len(calls)]
Previous == calls[Len(calls) - 1]

IsUpdate(c, progress, duration, video_id) ==
    /\ c.name = "update_progress"
    /\ c.progress = progress
    /\ c.duration = duration
    /\ c.video_id = video_id

\* The scenario of C15: an entry with duration 3600 and otherwise default
\* watch state got update_progress(2500, 3600, "v1") and then
\* update_progress(2520, 3600, "v1").
Scenario ==
    /\ Len(calls) >= 2
    /\ [Previous.was.state EXCEPT !.watched_bitfield = NoBits]
           = [WatchState EXCEPT !.duration = 3600]
    /\ IsUpdate(Previous, 2500, 3600, <<"v1">>)
    /\ IsUpdate(Last, 2520, 3600, <<"v1">>)

\* C15 as stated: after the second call of the scenario flaggedWatched is 1
\* and timesWatched is 1.
C15_ScenarioFlagsWatched ==
    Scenario => entry.state.flaggedWatched = 1 /\ entry.state.timesWatched = 1

\* C15, amended: the first call of the scenario switches to "v1" and leaves
\* timeWatched 0, the second adds 20, which does not exceed 3600 * 0.7, so
\* after it flaggedWatched is 0 and timesWatched is 0.
C15_ScenarioStaysUnflagged ==
    Scenario => /\ failure = "none"
                /\ entry.state.timeWatched = 20
                /\ entry.state.flaggedWatched = 0
                /\ entry.state.timesWatched = 0

C15_Witness ==
    /\ Scenario
    /\ entry.state.timeOffset = 2520
    /\ entry.state.video_id = <<"v1">>

\* The last call was start_stop on an entry whose offset was beyond 0.9 of
\* its duration.
AtCredits ==
    /\ Len(calls) >= 1
    /\ Last.name = "start_stop"
    /\ 10 * Last.was.state.timeOffset > 9 * Last.was.state.duration

\* C19: start_stop on an entry with timeOffset > duration * 0.9 completes
\* with timeOffset reset to 0, or to 1 when a next episode exists, and then
\* video_id is the next episode's id, timeWatched is rolled into
\* overallTimeWatched and reset, and flaggedWatched is reset.
C19_CreditsResetOffset ==
    AtCredits =>
        /\ failure = "none"
        /\ IF Last.episode.present /\ Last.episode.next_episode # NoVideo
           THEN /\ entry.state.timeOffset = 1
                /\ entry.state.video_id = Last.episode.next_episode
                /\ entry.state.timeWatched = 0
                /\ entry.state.overallTimeWatched
                       = Last.was.state.overallTimeWatched
                             + Last.was.state.timeWatched
                /\ entry.state.flaggedWatched = 0
           ELSE entry.state.timeOffset = 0

\* C20: an update_progress call never lowers overallTimeWatched, never
\* lowers timeWatched unless it switches the video, and on the current
\* video with an offset below the stored timeOffset leaves both as they
\* were.
C20_BackwardSeekAddsNothing ==
    (Len(calls) >= 1 /\ Last.name = "update_progress")
    => /\ entry.state.overallTimeWatched >= Last.was.state.overallTimeWatched
       /\ Last.video_id = Last.was.state.video_id
              => entry.state.timeWatched >= Last.was.state.timeWatched
       /\ (/\ Last.video_id = Last.was.state.video_id
           /\ Last.progress < Last.was.state.timeOffset)
              => /\ entry.state.timeWatched = Last.was.state.timeWatched
                 /\ entry.state.overallTimeWatched
                        = Last.was.state.overallTimeWatched

\* A seek back from 3300 to 20 on the current video, with time watched
\* before it.
C20_Witness ==
    /\ Len(calls) >= 1
    /\ Last.name = "update_progress"
    /\ Last.video_id = Last.was.state.video_id
    /\ Last.was.state.timeOffset = 3300
    /\ Last.progress = 20
    /\ Last.was.state.timeWatched > 0
    /\ entry.state.timeWatched = Last.was.state.timeWatched

\* C21: after an update_progress call, from any entry state, a temporary
\* entry with timesWatched 0 is removed, and a removed entry is temporary.
C21_TemporaryUnwatchedIsRemoved ==
    (Len(calls) >= 1 /\ Last.name = "update_progress")
    => /\ failure = "none"
       /\ (entry.temp /\ entry.state.timesWatched = 0) => entry.removed
       /\ entry.removed => entry.temp

\* A temporary entry that was not removed and was never watched got a
\* progress report.
C21_Witness ==
    /\ Len(calls) >= 1
    /\ Last.name = "update_progress"
    /\ Last.was.temp
    /\ ~Last.was.removed
    /\ entry.state.timesWatched = 0
    /\ entry.removed
    /\ entry.temp

\* Calls i..j are update_progress calls that all carry the same video id.
SameVideoRun(i, j) ==
    /\ 1 <= i
    /\ i <= j
    /\ j <= Len(calls)
    /\ \A k \in i..j : /\ calls[k].name = "update_progress"
                       /\ calls[k].video_id = calls[i].video_id

\* The entry as call k left it.
After(k) == IF k = Len(calls) THEN entry ELSE calls[k + 1].was

\* C23: over a run of consecutive update_progress calls with one video id
\* timesWatched rises by at most 1 in total, however many of the calls
\* leave timeWatched above duration * 0.7.
C23_OneCountPerPass ==
    \A i \in 1..Len(calls) : \A j \in i..Len(calls) :
        SameVideoRun(i, j)
        => After(j).state.timesWatched
               <= calls[i].was.state.timesWatched + 1

\* Three reports on one video: the second and the third both leave
\* timeWatched above the threshold, timesWatched rose once.
C23_Witness ==
    /\ Len(calls) >= 3
    /\ SameVideoRun(Len(calls) - 2, Len(calls))
    /\ 10 * After(Len(calls) - 1).state.timeWatched
           > 7 * After(Len(calls) - 1).state.duration
    /\ 10 * entry.state.timeWatched > 7 * entry.state.duration
    /\ entry.state.timesWatched
           = calls[Len(calls) - 2].was.state.timesWatched + 1

\* C22: a call of update_progress, start_stop, set_library_status,
\* clear_progress, mark_watched or dismiss_notification that changes the
\* entry or its watch state sets _mtime to the time of that call.
C22_MutationStampsMtime ==
    (Len(calls) >= 1 /\ [entry EXCEPT !._mtime = NoTime]
                            # [Last.was EXCEPT !._mtime = NoTime])
    => entry._mtime = Len(calls)

\* clear_progress reset a nonzero offset, after an earlier call had stamped
\* the entry.
C22_Witness ==
    /\ Len(calls) >= 2
    /\ Last.name = "clear_progress"
    /\ Last.was.state.timeOffset > 0
    /\ Last.was._mtime = Len(calls) - 1
    /\ entry.state.timeOffset = 0
    /\ entry._mtime = Len(calls)

\* --------------------------------------- get_metadata_by_libraries' claim
\* The metadata of items 1..k whose lookup returned, in the order of the
\* items.
RECURSIVE Looked(_)
Looked(k) ==
    IF k = 0 THEN <<>>
    ELSE IF tpc[k] = "done" THEN Append(Looked(k - 1), Meta(libraries[k]))
    ELSE Looked(k - 1)

\* C24: get_metadata_by_libraries returns only after every worker thread
\* has ended, and returns the metadata of the items in the order of the
\* items, without those whose lookup failed, whatever the interleaving and
\* the order in which the threads end.
C24_GatherInInputOrder ==
    gpc = "returned"
    => /\ \A i \in Items : Ended(i)
       /\ listed = Looked(Len(libraries))

\* MaxItems distinct items; the thread of the last one ended first, the
\* lookup of the first one failed.
C24_Witness ==
    /\ gpc = "returned"
    /\ Len(libraries) = MaxItems
    /\ libraries[1] # libraries[MaxItems]
    /\ finished[1] = MaxItems
    /\ tpc[1] = "raised"
    /\ tpc[MaxItems] = "done"
    /\ Len(listed) = MaxItems - 1
    /\ listed[MaxItems - 1] = Meta(libraries[MaxItems])

====
